---- MODULE Spec2Model ----
(***************************************************************************)
(* A model of demo/python_algorithms.py: merge_sort / merge,               *)
(* binary_search, dijkstra_shortest_path and fibonacci_dynamic.            *)
(*                                                                         *)
(* The four functions are independent; each has its own specification      *)
(* (SpecSort, SpecSearch, SpecDijkstra, SpecFib) over its own variables,    *)
(* the variables of the other three staying at their idle values.          *)
(* Python indices are 0-based and are kept 0-based in the model; a Python  *)
(* list is a TLA+ sequence read through PyIndex.                           *)
(***************************************************************************)
EXTENDS Integers, Sequences, FiniteSets, Bags, TLC

VARIABLES
    \* merge_sort: the heap of list objects (object id = position), the
    \* call stack, the value just returned (<<v>>, or <<>> when there is
    \* none), the last call that returned (<<>> before the first return,
    \* then <<c>> with c its argument, the value it returned and the number
    \* of objects that existed before its return statement ran), and the
    \* contents the top-level argument had when merge_sort was called
    heap, stack, ret, lastCall, input,
    \* binary_search: the arguments, the locals and where the call stands
    arr, target, left, right, mid, result, exit,
    \* dijkstra_shortest_path: the arguments, the locals, the position
    graph, start, distances, unvisited, current, dpc, finalized,
    \* fibonacci_dynamic: the argument, the memo table, the call stack of
    \* fib and the value just returned (<<v>>, or <<>> when there is none)
    n, memo, fstack, fret

sortVars   == <<heap, stack, ret, lastCall, input>>
searchVars == <<arr, target, left, right, mid, result, exit>>
dijVars    == <<graph, start, distances, unvisited, current, dpc, finalized>>
fibVars    == <<n, memo, fstack, fret>>
vars       == <<sortVars, searchVars, dijVars, fibVars>>

\* ---- bounds of the model ----
MaxLen == 4        \* longest list given to merge_sort
MaxKey == 3        \* keys of the elements sorted are 1..MaxKey
MaxArr == 4        \* longest list given to binary_search
MaxVal == 3        \* its elements are 1..MaxVal, its targets 0..MaxVal+1
MaxN == 10         \* largest argument given to fibonacci_dynamic
NumNodes == 3      \* node identifiers of the graphs are 1..NumNodes
MaxEdges == 3      \* most edges of a graph given to dijkstra_shortest_path
MaxW == 1          \* edge weights are 0..MaxW

\* ---- idle values of the variables of the functions not being run ----
IdleSort   == heap = <<>> /\ stack = <<>> /\ ret = <<>>
              /\ lastCall = <<>> /\ input = <<>>
IdleSearch == arr = <<>> /\ target = 0 /\ left = 0 /\ right = 0 /\ mid = -1
              /\ result = -2 /\ exit = "idle"
IdleDij    == graph = <<>> /\ start = 0 /\ distances = <<>> /\ unvisited = {}
              /\ current = 0 /\ dpc = "idle" /\ finalized = <<>>
IdleFib    == n = 0 /\ memo = <<>> /\ fstack = <<>> /\ fret = <<>>

\* ----------------------------------------------------------------------
\* Python lists
\* ----------------------------------------------------------------------

\* len(s)
len(s) == Len(s)

\* s[i] for an index the source only ever uses when 0 <= i < len(s)
PyIndex(s, i) == s[i + 1]

\* s[:i] for 0 <= i <= len(s)
PySliceTo(s, i) == SubSeq(s, 1, i)

\* a slice that loses its first element
PySliceFromSkip(s, i) == SubSeq(s, i + 2, Len(s))

\* s[i:] for 0 <= i <= len(s)
PySliceFrom(s, i) == SubSeq(s, i + 1, Len(s))

\* ----------------------------------------------------------------------
\* merge_sort and merge
\* ----------------------------------------------------------------------

\* The elements sorted are <<key, payload>> pairs compared by key only;
\* the payload tells equal keys apart.
Key(e) == e[1]

\* a < b on elements: a comparison that does not favour the left run
LtElem(a, b) == Key(a) < Key(b)

\* a <= b on elements (line 20)
LeElem(a, b) == Key(a) <= Key(b)

\* The while loop of merge and the two extends after it (lines 19-28).
RECURSIVE merge_loop(_, _, _, _, _)
merge_loop(lft, rgt, i, j, res) ==
    IF i < len(lft) /\ j < len(rgt)
    THEN IF LeElem(PyIndex(lft, i), PyIndex(rgt, j))
         THEN merge_loop(lft, rgt, i + 1, j, Append(res, PyIndex(lft, i)))
         ELSE merge_loop(lft, rgt, i, j + 1, Append(res, PyIndex(rgt, j)))
    ELSE res \o PySliceFrom(lft, i) \o PySliceFrom(rgt, j)

\* merge(left, right): result = [], i = j = 0, the loop, return result
merge(lft, rgt) == merge_loop(lft, rgt, 0, 0, <<>>)

\* A new list object on the heap; its id is its position.
Alloc(h, s) == Append(h, s)
NewId(h) == Len(h) + 1

Top == stack[Len(stack)]
Pop(s) == SubSeq(s, 1, Len(s) - 1)
SetTop(s, f) == [s EXCEPT ![Len(s)] = f]

\* A frame of merge_sort: its argument, where it stands, and its local
\* left (0 until line 9 assigns it).
Frame(a) == [arr |-> a, pc |-> "start", left |-> 0]

\* What a return statement of merge_sort leaves behind: the value for the
\* caller and the record of the call.
Returns(v) ==
    /\ ret' = <<v>>
    /\ lastCall' = <<[arg |-> Top.arr, ret |-> v, objs |-> Len(heap)]>>
    /\ stack' = Pop(stack)

\* The lists merge_sort is called with: every list of at most MaxLen
\* elements with keys in 1..MaxKey, the payload being the position.
SortInputs ==
    UNION {{[p \in 1..k |-> <<ks[p], p>>] : ks \in [1..k -> 1..MaxKey]} : k \in 0..MaxLen}

InitSort ==
    /\ \E s \in SortInputs : heap = <<s>> /\ input = s
    /\ stack = <<Frame(1)>>
    /\ ret = <<>>
    /\ lastCall = <<>>
    /\ IdleSearch /\ IdleDij /\ IdleFib

\* a base case that returns a copy of arr
MergeSortBaseCopy ==
    /\ stack # <<>> /\ Top.pc = "start"
    /\ len(heap[Top.arr]) <= 1
    /\ heap' = Alloc(heap, heap[Top.arr])
    /\ Returns(NewId(heap))
    /\ UNCHANGED input
    /\ UNCHANGED <<searchVars, dijVars, fibVars>>

\* lines 5-6: if len(arr) <= 1: return arr
MergeSortBase ==
    /\ stack # <<>> /\ Top.pc = "start"
    /\ len(heap[Top.arr]) <= 1
    /\ Returns(Top.arr)
    /\ UNCHANGED <<heap, input>>
    /\ UNCHANGED <<searchVars, dijVars, fibVars>>

\* lines 8-9: mid = len(arr) // 2; the call merge_sort(arr[:mid])
MergeSortCallLeft ==
    /\ stack # <<>> /\ Top.pc = "start"
    /\ len(heap[Top.arr]) > 1
    /\ LET m == len(heap[Top.arr]) \div 2
       IN  /\ heap' = Alloc(heap, PySliceTo(heap[Top.arr], m))
           /\ stack' = Append(SetTop(stack, [Top EXCEPT !.pc = "left"]),
                              Frame(NewId(heap)))
    /\ ret' = <<>>
    /\ UNCHANGED <<lastCall, input>>
    /\ UNCHANGED <<searchVars, dijVars, fibVars>>

\* lines 9-10: left = the value returned; the call merge_sort(arr[mid:])
MergeSortCallRight ==
    /\ stack # <<>> /\ Top.pc = "left" /\ ret # <<>>
    /\ LET m == len(heap[Top.arr]) \div 2
       IN  /\ heap' = Alloc(heap, PySliceFrom(heap[Top.arr], m))
           /\ stack' = Append(SetTop(stack, [Top EXCEPT !.pc = "right", !.left = ret[1]]),
                              Frame(NewId(heap)))
    /\ ret' = <<>>
    /\ UNCHANGED <<lastCall, input>>
    /\ UNCHANGED <<searchVars, dijVars, fibVars>>

\* lines 10-12: right = the value returned; return merge(left, right)
MergeSortMerge ==
    /\ stack # <<>> /\ Top.pc = "right" /\ ret # <<>>
    /\ heap' = Alloc(heap, merge(heap[Top.left], heap[ret[1]]))
    /\ Returns(NewId(heap))
    /\ UNCHANGED input
    /\ UNCHANGED <<searchVars, dijVars, fibVars>>

NextSort ==
    \/ MergeSortBase
    \/ MergeSortCallLeft
    \/ MergeSortCallRight
    \/ MergeSortMerge

SpecSort == InitSort /\ [][NextSort]_vars

\* ---- properties of merge_sort ----

Range(s) == {s[i] : i \in DOMAIN s}
BagOf(s) == [e \in Range(s) |-> Cardinality({i \in DOMAIN s : s[i] = e})]
Keys(s) == [i \in DOMAIN s |-> Key(s[i])]
NonDecreasing(s) == \A p, q \in DOMAIN s : p < q => Key(s[p]) <= Key(s[q])
PosIn(s, e) == CHOOSE i \in DOMAIN s : s[i] = e
Returned == lastCall # <<>>
Call == lastCall[1]
SortDone == stack = <<>> /\ ret # <<>>

\* C2: every call of merge_sort (the top-level one and each recursive one,
\* empty and singleton arguments included) returns a list that holds the
\* elements of its argument with the same multiplicities and whose keys
\* are in non-decreasing order.
C2_SortedPermutation ==
    Returned =>
        /\ BagOf(heap[Call.ret]) = BagOf(heap[Call.arg])
        /\ BagOf(Keys(heap[Call.ret])) = BagOf(Keys(heap[Call.arg]))
        /\ NonDecreasing(heap[Call.ret])

\* The top-level call has returned for an argument with a repeated key
\* that was not in order.
C2_Witness ==
    /\ SortDone /\ Call.arg = 1
    /\ len(input) >= 3
    /\ ~NonDecreasing(input)
    /\ \E p, q \in DOMAIN input : p # q /\ Key(input[p]) = Key(input[q])
    /\ heap[ret[1]] # input

\* C3: merge_sort is stable at every recursion depth: in the list a call
\* returns, two elements with equal keys stand in the order they had in
\* the call's argument.
C3_Stable ==
    Returned =>
        LET out == heap[Call.ret]
            a   == heap[Call.arg]
        IN  \A p, q \in DOMAIN out :
                (p < q /\ Key(out[p]) = Key(out[q]))
                    => /\ out[p] \in Range(a) /\ out[q] \in Range(a)
                       /\ PosIn(a, out[p]) < PosIn(a, out[q])

\* A call has merged two runs that each hold an element of the same key,
\* so the tie-break of line 20 decided their order.
C3_Witness ==
    /\ Returned /\ Call.ret # Call.arg
    /\ LET a == heap[Call.arg]
           m == len(a) \div 2
       IN  /\ \E p \in 1..m, q \in (m + 1)..len(a) : Key(a[p]) = Key(a[q])
           /\ ~NonDecreasing(a)

\* C7 as stated: every call, base cases included, returns a list object
\* that is not the object it was given, and the input is unchanged.
C7_AlwaysFresh ==
    Returned => (Call.ret # Call.arg /\ heap[1] = input)

\* C7 amended: the top-level argument's contents never change; a call
\* whose argument has two or more elements returns a newly created list
\* object, and a call whose argument has at most one element returns the
\* argument object itself.
C7_FreshUnlessBase ==
    /\ heap # <<>> => heap[1] = input
    /\ Returned =>
          IF len(heap[Call.arg]) <= 1
          THEN Call.ret = Call.arg
          ELSE Call.ret > Call.objs /\ Call.ret # Call.arg

\* The top-level call returned its own argument, a list of one element.
C7_WitnessAlias ==
    /\ SortDone /\ Call.arg = 1 /\ ret = <<1>> /\ len(input) = 1


\* A call on a list of two or more elements returned a new object while
\* the recursion was still running.
C7_WitnessFresh ==
    /\ Returned /\ stack # <<>>
    /\ len(heap[Call.arg]) >= 2 /\ Call.ret > Call.objs

\* ----------------------------------------------------------------------
\* binary_search
\* ----------------------------------------------------------------------

\* The lists binary_search is called with: every list of at most MaxArr
\* integers of 1..MaxVal, sorted or not (the function does not check).
SearchInputs == UNION {[1..k -> 1..MaxVal] : k \in 0..MaxArr}
SearchTargets == 0..(MaxVal + 1)

\* line 33: left, right = 0, len(arr) - 1.  mid is unassigned (-1) and
\* nothing has been returned (-2); exit tells which return statement ran.
InitSearch ==
    /\ arr \in SearchInputs
    /\ target \in SearchTargets
    /\ left = 0
    /\ right = len(arr) - 1
    /\ mid = -1
    /\ result = -2
    /\ exit = "loop"
    /\ IdleSort /\ IdleDij /\ IdleFib

\* line 36: mid = (left + right) // 2
Midpoint(l, r) == (l + r) \div 2

\* a boundary test that is one too small
CanGoRightOffByOne(m, a) == m < len(a) - 2

\* line 42: if mid < len(arr) - 1
CanGoRight(m, a) == m < len(a) - 1

\* a boundary test that is one too large
CanGoLeftOffByOne(m) == m > 1

\* line 47: if mid > 0
CanGoLeft(m) == m > 0

\* a narrowing that skips an index
NewRightSkip(m) == m - 2

\* line 48: right = mid - 1
NewRight(m) == m - 1

\* line 43: left = mid + 1
NewLeft(m) == m + 1

\* lines 35-40: mid_value == target: return mid
SearchFound ==
    /\ exit = "loop" /\ left <= right
    /\ LET m == Midpoint(left, right)
       IN  /\ PyIndex(arr, m) = target
           /\ mid' = m
           /\ result' = m
    /\ exit' = "found"
    /\ UNCHANGED <<arr, target, left, right>>
    /\ UNCHANGED <<sortVars, dijVars, fibVars>>

\* lines 41-43: mid_value < target and mid < len(arr) - 1: left = mid + 1
SearchGoRight ==
    /\ exit = "loop" /\ left <= right
    /\ LET m == Midpoint(left, right)
       IN  /\ PyIndex(arr, m) < target
           /\ CanGoRight(m, arr)
           /\ mid' = m
           /\ left' = NewLeft(m)
    /\ UNCHANGED <<arr, target, right, result, exit>>
    /\ UNCHANGED <<sortVars, dijVars, fibVars>>

\* lines 41-45: mid_value < target and mid is the last index: return -1
SearchExitUpper ==
    /\ exit = "loop" /\ left <= right
    /\ LET m == Midpoint(left, right)
       IN  /\ PyIndex(arr, m) < target
           /\ ~CanGoRight(m, arr)
           /\ mid' = m
    /\ result' = -1
    /\ exit' = "upper"
    /\ UNCHANGED <<arr, target, left, right>>
    /\ UNCHANGED <<sortVars, dijVars, fibVars>>

\* lines 46-48: mid_value > target and mid > 0: right = mid - 1
SearchGoLeft ==
    /\ exit = "loop" /\ left <= right
    /\ LET m == Midpoint(left, right)
       IN  /\ PyIndex(arr, m) > target
           /\ CanGoLeft(m)
           /\ mid' = m
           /\ right' = NewRight(m)
    /\ UNCHANGED <<arr, target, left, result, exit>>
    /\ UNCHANGED <<sortVars, dijVars, fibVars>>

\* lines 46-50: mid_value > target and mid is index 0: return -1
SearchExitLower ==
    /\ exit = "loop" /\ left <= right
    /\ LET m == Midpoint(left, right)
       IN  /\ PyIndex(arr, m) > target
           /\ ~CanGoLeft(m)
           /\ mid' = m
    /\ result' = -1
    /\ exit' = "lower"
    /\ UNCHANGED <<arr, target, left, right>>
    /\ UNCHANGED <<sortVars, dijVars, fibVars>>

\* lines 35, 52: the loop condition fails: return -1
SearchLoopEnd ==
    /\ exit = "loop" /\ left > right
    /\ result' = -1
    /\ exit' = "end"
    /\ UNCHANGED <<arr, target, left, right, mid>>
    /\ UNCHANGED <<sortVars, dijVars, fibVars>>

NextSearch ==
    \/ SearchFound
    \/ SearchGoRight
    \/ SearchExitUpper
    \/ SearchGoLeft
    \/ SearchExitLower
    \/ SearchLoopEnd

SpecSearch == InitSearch /\ [][NextSearch]_vars

\* ---- properties of binary_search ----

Ascending(s) == \A p, q \in DOMAIN s : p < q => s[p] <= s[q]
SearchReturned == exit \in {"found", "upper", "lower", "end"}

\* C4: on a list sorted ascending binary_search returns an index of the
\* target (0 <= j < len(arr), arr[j] = target) when the target occurs and
\* -1 when it does not, and every index it reads arr at is in range.
C4_SearchCorrect ==
    Ascending(arr) =>
        /\ (exit = "loop" /\ left <= right) =>
               (0 <= Midpoint(left, right) /\ Midpoint(left, right) < len(arr))
        /\ SearchReturned =>
               IF \E i \in DOMAIN arr : arr[i] = target
               THEN /\ 0 <= result /\ result < len(arr)
                    /\ PyIndex(arr, result) = target
               ELSE result = -1

\* The target was found in a sorted list that holds it more than once,
\* after the interval had been narrowed.
C4_Witness ==
    /\ Ascending(arr) /\ exit = "found"
    /\ Cardinality({i \in DOMAIN arr : arr[i] = target}) >= 2
    /\ (left # 0 \/ right # len(arr) - 1)

\* C8 as stated: on a sorted list neither early return (line 45, line 50)
\* is ever executed.
C8_EarlyExitsDead ==
    Ascending(arr) => exit \notin {"upper", "lower"}

\* C8 amended: on a sorted list the early returns are executed, but only
\* where narrowing would empty the interval: line 45 runs only with
\* mid = right = len(arr) - 1 (so mid + 1 > right) and line 50 only with
\* mid = left = 0 (so mid - 1 < left).
C8_EarlyExitsRedundant ==
    Ascending(arr) =>
        /\ exit = "upper" => (mid = right /\ mid = len(arr) - 1 /\ NewLeft(mid) > right)
        /\ exit = "lower" => (mid = left /\ mid = 0 /\ NewRight(mid) < left)

\* Line 45 ran on a sorted list of more than one element.
C8_Witness ==
    /\ Ascending(arr) /\ len(arr) >= 2 /\ exit = "upper"

\* The two-branch binary search: no boundary tests before narrowing.
RECURSIVE PlainSearch(_, _, _, _)
PlainSearch(a, t, l, r) ==
    IF l <= r
    THEN LET m == (l + r) \div 2
         IN  IF a[m + 1] = t THEN m
             ELSE IF a[m + 1] < t THEN PlainSearch(a, t, m + 1, r)
             ELSE PlainSearch(a, t, l, m - 1)
    ELSE -1

\* C9: for every list, sorted or not, and every target, binary_search
\* returns what the two-branch binary search returns.
C9_SameAsPlain ==
    SearchReturned => result = PlainSearch(arr, target, 0, len(arr) - 1)

\* An early return ran on an unsorted list that holds the target.
C9_Witness ==
    /\ ~Ascending(arr) /\ exit \in {"upper", "lower"}
    /\ \E i \in DOMAIN arr : arr[i] = target


\* ----------------------------------------------------------------------
\* Python dicts
\* ----------------------------------------------------------------------

\* a store that only overwrites an existing key
PyDictSetExisting(d, k, v) == [x \in DOMAIN d |-> IF x = k THEN v ELSE d[x]]

\* d[k] = v: the key is added when it is absent, overwritten when present
PyDictSet(d, k, v) == [x \in DOMAIN d \cup {k} |-> IF x = k THEN v ELSE d[x]]

\* ----------------------------------------------------------------------
\* dijkstra_shortest_path
\* ----------------------------------------------------------------------

\* float('inf') (line 56).  Every other distance is an integer >= 0; Less
\* and Plus are < and + on the distances with this value as infinity.
Inf == -1
Less(a, b) == a # Inf /\ (b = Inf \/ a < b)
Plus(a, w) == IF a = Inf THEN Inf ELSE a + w

Nodes == 1..NumNodes
Weights == 0..MaxW

\* The graphs dijkstra_shortest_path is called with: the keys are the
\* nodes 1..k; a key's neighbours are any nodes, keys or not; at most
\* MaxEdges edges, each of a weight in 0..MaxW.  Every graph over
\* NumNodes nodes is one of these after renaming its nodes.
EdgeSets(keys) == {E \in SUBSET (keys \X Nodes) : Cardinality(E) <= MaxEdges}
GraphOf(keys, E, w) ==
    [u \in keys |-> [v \in {x \in Nodes : <<u, x>> \in E} |-> w[<<u, v>>]]]

\* The start nodes, again up to renaming: node 1, which is a key unless
\* the graph is empty, and node NumNodes when it is not a key.
Starts(keys) == {1} \cup (IF NumNodes \in keys THEN {} ELSE {NumNodes})

\* lines 56-58: distances = {node: inf for node in graph};
\* distances[start] = 0; unvisited = set(graph.keys()).
InitDijkstra ==
    /\ \E k \in 0..NumNodes :
         \E E \in EdgeSets(1..k) :
           \E w \in [E -> Weights] :
             graph = GraphOf(1..k, E, w)
    /\ start \in Starts(DOMAIN graph)
    /\ distances = PyDictSet([node \in DOMAIN graph |-> Inf], start, 0)
    /\ unvisited = DOMAIN graph
    /\ current = 0
    /\ dpc = "loop"
    /\ finalized = <<>>
    /\ IdleSort /\ IdleSearch /\ IdleFib

\* a selection that takes any unvisited node
AnyNodes(unv, d) == unv

\* line 61: min(unvisited, key=lambda node: distances[node]) returns a
\* node of least distance; which one, among several, depends on the
\* iteration order of the set.
MinNodes(unv, d) == {u \in unv : \A v \in unv : ~Less(d[v], d[u])}

\* a new distance that forgets the distance of current
NewDistanceEdgeOnly(d, c, w) == w

\* line 68: new_distance = distances[current] + weight
NewDistance(d, c, w) == Plus(d[c], w)

\* lines 66-70: the for loop over graph[current].items(), the neighbours
\* still to do being todo.  The items are taken by ascending neighbour;
\* a dict holds each neighbour once and an iteration writes only
\* distances[neighbor], so the order matters only if distances[current]
\* is written, which takes a loop current -> current of negative weight.
RECURSIVE RelaxLoop(_, _, _, _)
RelaxLoop(d, c, unv, todo) ==
    IF todo = {} THEN d
    ELSE LET neighbor == CHOOSE x \in todo : \A y \in todo : x <= y
             weight   == graph[c][neighbor]
             nd       == NewDistance(d, c, weight)
             d2       == IF neighbor \in unv /\ Less(nd, d[neighbor])
                         THEN PyDictSet(d, neighbor, nd)
                         ELSE d
         IN  RelaxLoop(d2, c, unv, todo \ {neighbor})

\* lines 60-61: unvisited is not empty; current = a node of least distance
DijkstraSelect ==
    /\ dpc = "loop" /\ unvisited # {}
    /\ current' \in MinNodes(unvisited, distances)
    /\ dpc' = "selected"
    /\ UNCHANGED <<graph, start, distances, unvisited, finalized>>
    /\ UNCHANGED <<sortVars, searchVars, fibVars>>

\* lines 63-64, 74: distances[current] is infinity: break, return distances
DijkstraBreak ==
    /\ dpc = "selected" /\ distances[current] = Inf
    /\ dpc' = "returned"
    /\ UNCHANGED <<graph, start, distances, unvisited, current, finalized>>
    /\ UNCHANGED <<sortVars, searchVars, fibVars>>

\* lines 66-72: relax the neighbours of current; unvisited.remove(current)
DijkstraRelax ==
    /\ dpc = "selected" /\ distances[current] # Inf
    /\ distances' = RelaxLoop(distances, current, unvisited, DOMAIN graph[current])
    /\ unvisited' = unvisited \ {current}
    /\ finalized' = PyDictSet(finalized, current, distances'[current])
    /\ dpc' = "loop"
    /\ UNCHANGED <<graph, start, current>>
    /\ UNCHANGED <<sortVars, searchVars, fibVars>>

\* lines 60, 74: unvisited is empty: return distances
DijkstraReturn ==
    /\ dpc = "loop" /\ unvisited = {}
    /\ dpc' = "returned"
    /\ UNCHANGED <<graph, start, distances, unvisited, current, finalized>>
    /\ UNCHANGED <<sortVars, searchVars, fibVars>>

NextDijkstra ==
    \/ DijkstraSelect
    \/ DijkstraBreak
    \/ DijkstraRelax
    \/ DijkstraReturn

SpecDijkstra == InitDijkstra /\ [][NextDijkstra]_vars

\* ---- properties of dijkstra_shortest_path ----

MinOf(S) == CHOOSE x \in S : \A y \in S : ~Less(y, x)

\* With d[v] the least total weight of a walk start -> v of at most j
\* edges (infinity when there is none), the same for at most j + 1 edges.
OneMoreEdge(d) ==
    [v \in DOMAIN graph |->
        MinOf({d[v]} \cup {Plus(d[u], graph[u][v]) :
                             u \in {x \in DOMAIN graph : v \in DOMAIN graph[x]}})]

\* Walks of any number of edges: one more edge until nothing changes
\* (the weights being >= 0, no walk is lighter than every shorter one
\* for ever).
RECURSIVE WalkDist(_)
WalkDist(d) == LET e == OneMoreEdge(d) IN IF e = d THEN d ELSE WalkDist(e)

\* TrueDist[v]: the least total weight of a path start -> v, infinity
\* when there is none.
TrueDist == WalkDist([v \in DOMAIN graph |-> IF v = start THEN 0 ELSE Inf])

StartIsKey == start \in DOMAIN graph

\* C1: with start a key of the graph (and weights >= 0), the mapping
\* returned has exactly the graph's keys, gives start 0 and gives every
\* node the least total weight of a path from start, infinity when there
\* is no path; whichever node of least distance each selection took.
C1_ShortestDistances ==
    (StartIsKey /\ dpc = "returned") =>
        /\ DOMAIN distances = DOMAIN graph
        /\ distances[start] = 0
        /\ LET td == TrueDist
           IN  \A v \in DOMAIN graph : distances[v] = td[v]

\* The call returned the distances of a graph in which a path of two
\* edges is shorter than the edge from start.
C1_Witness ==
    /\ StartIsKey /\ dpc = "returned"
    /\ \E v \in DOMAIN graph \ {start} :
          /\ v \in DOMAIN graph[start]
          /\ distances[v] # Inf /\ distances[v] < graph[start][v]

\* C6 as stated: when start is not a key of the graph the call does not
\* return a distance mapping.
C6_FailsOnMissingStart ==
    ~StartIsKey => dpc # "returned"

\* C6 amended: when start is not a key of the graph the call does not
\* fail: distances[start] = 0 adds an entry for start, every step up to
\* the return is possible, no distance is ever lowered, and the mapping
\* returned holds 0 for start and infinity for every key of the graph.
C6_ReturnsOnMissingStart ==
    ~StartIsKey =>
        /\ DOMAIN distances = DOMAIN graph \cup {start}
        /\ distances[start] = 0
        /\ \A v \in DOMAIN graph : distances[v] = Inf
        /\ dpc # "returned" => ENABLED NextDijkstra

\* The call returned by the break of line 64 for a start that is no key
\* of a graph with edges.
C6_Witness ==
    /\ ~StartIsKey /\ dpc = "returned"
    /\ unvisited # {}
    /\ \E u \in DOMAIN graph : DOMAIN graph[u] # {}

\* C10: with start a key (and weights >= 0): the node selected as current
\* holds its least path weight from start; a node removed from unvisited
\* keeps the distance it had when removed; and when the loop breaks,
\* every node still unvisited has distance infinity and no path from
\* start.
C10_SelectedIsFinal ==
    StartIsKey =>
        /\ dpc = "selected" => distances[current] = TrueDist[current]
        /\ \A v \in DOMAIN finalized :
              v \notin unvisited /\ distances[v] = finalized[v]
        /\ (dpc = "returned" /\ unvisited # {}) =>
              LET td == TrueDist
              IN  \A v \in unvisited : distances[v] = Inf /\ td[v] = Inf

\* The loop broke with a node left unvisited after two nodes had been
\* removed, the second at a distance above 0.
C10_Witness ==
    /\ StartIsKey /\ dpc = "returned" /\ unvisited # {}
    /\ Cardinality(DOMAIN finalized) >= 2
    /\ \E v \in DOMAIN finalized : finalized[v] > 0

\* ----------------------------------------------------------------------
\* fibonacci_dynamic
\* ----------------------------------------------------------------------

FibTop == fstack[Len(fstack)]

\* A frame of fib: its argument, where it stands, and the value of
\* fib(num - 1) once that call has returned (0 until then).
FibFrame(k) == [num |-> k, pc |-> "start", a |-> 0]

\* line 78 and the call of line 91: memo = {}, fib(n)
InitFib ==
    /\ n \in 0..MaxN
    /\ memo = <<>>
    /\ fstack = <<FibFrame(n)>>
    /\ fret = <<>>
    /\ IdleSort /\ IdleSearch /\ IdleDij

\* a base case that returns 1 for every num <= 1
BaseValueOne(num) == 1

\* line 85: return num
BaseValue(num) == num

\* lines 81-82: if num in memo: return memo[num]
FibMemoHit ==
    /\ fstack # <<>> /\ FibTop.pc = "start"
    /\ FibTop.num \in DOMAIN memo
    /\ fret' = <<memo[FibTop.num]>>
    /\ fstack' = Pop(fstack)
    /\ UNCHANGED <<n, memo>>
    /\ UNCHANGED <<sortVars, searchVars, dijVars>>

\* lines 84-85: if num <= 1: return num
FibBase ==
    /\ fstack # <<>> /\ FibTop.pc = "start"
    /\ FibTop.num \notin DOMAIN memo
    /\ FibTop.num <= 1
    /\ fret' = <<BaseValue(FibTop.num)>>
    /\ fstack' = Pop(fstack)
    /\ UNCHANGED <<n, memo>>
    /\ UNCHANGED <<sortVars, searchVars, dijVars>>

\* line 87: the call fib(num - 1), the left operand of the sum
FibCallFirst ==
    /\ fstack # <<>> /\ FibTop.pc = "start"
    /\ FibTop.num \notin DOMAIN memo
    /\ FibTop.num > 1
    /\ fstack' = Append(SetTop(fstack, [FibTop EXCEPT !.pc = "first"]),
                        FibFrame(FibTop.num - 1))
    /\ fret' = <<>>
    /\ UNCHANGED <<n, memo>>
    /\ UNCHANGED <<sortVars, searchVars, dijVars>>

\* line 87: fib(num - 1) has returned; the call fib(num - 2)
FibCallSecond ==
    /\ fstack # <<>> /\ FibTop.pc = "first" /\ fret # <<>>
    /\ fstack' = Append(SetTop(fstack, [FibTop EXCEPT !.pc = "second", !.a = fret[1]]),
                        FibFrame(FibTop.num - 2))
    /\ fret' = <<>>
    /\ UNCHANGED <<n, memo>>
    /\ UNCHANGED <<sortVars, searchVars, dijVars>>

\* lines 87-89: result = the sum; memo[num] = result; return result
FibStore ==
    /\ fstack # <<>> /\ FibTop.pc = "second" /\ fret # <<>>
    /\ LET res == FibTop.a + fret[1]
       IN  /\ memo' = PyDictSet(memo, FibTop.num, res)
           /\ fret' = <<res>>
    /\ fstack' = Pop(fstack)
    /\ UNCHANGED n
    /\ UNCHANGED <<sortVars, searchVars, dijVars>>

NextFib ==
    \/ FibMemoHit
    \/ FibBase
    \/ FibCallFirst
    \/ FibCallSecond
    \/ FibStore

SpecFib == InitFib /\ [][NextFib]_vars

\* ---- properties of fibonacci_dynamic ----

\* The Fibonacci numbers by their definition.
RECURSIVE RefFib(_)
RefFib(k) == IF k = 0 THEN 0 ELSE IF k = 1 THEN 1 ELSE RefFib(k - 1) + RefFib(k - 2)

FibDone == fstack = <<>> /\ fret # <<>>
FibCalled == Len(fstack) = 1 /\ FibTop.pc = "start"

\* C5: fibonacci_dynamic(n) returns the n-th Fibonacci number, every
\* entry memo[k] written during the call is the k-th Fibonacci number,
\* and the memo table is empty when the top-level call of fib starts.
C5_FibCorrect ==
    /\ FibDone => fret[1] = RefFib(n)
    /\ \A k \in DOMAIN memo : memo[k] = RefFib(k)
    /\ (fstack # <<>> /\ FibCalled) => memo = <<>>

\* fibonacci_dynamic has returned for an n large enough that fib read
\* the memo table, every fib(k), 2 <= k <= n, being in the table.
C5_Witness ==
    /\ FibDone /\ n >= 4
    /\ DOMAIN memo = 2..n

====
